---- MODULE Spec2Model ----
(***************************************************************************)
(* State-machine model of the real-time session layer of specbridge:      *)
(* LiveClient (src/live-client.ts, the queueing variant at lines 99-257)  *)
(* and AudioStreamer (src/audio-streamer.ts).                             *)
(*                                                                         *)
(* JavaScript runs every handler to completion, so each handler (and each *)
(* continuation of an async function between two awaits) is one action.   *)
(* The browser objects the code drives are modelled by what the code can  *)
(* observe of them: a WebSocket by its readyState and by the messages it  *)
(* accepted for transmission, the AudioContext by its clock, a worklet    *)
(* MessagePort by its FIFO of posted frames.                              *)
(***************************************************************************)
EXTENDS Integers, Sequences, FiniteSets, TLC

\* ---------------------------------------------------------------- bounds
MaxSockets == 2
MaxSends == 3
MaxInbound == 3
MaxFrames == 2
MaxTime == 2
MaxLen == 4
Resolution == 1000

VARIABLES
    ws,             \* LiveClient.ws: 0 is null, else the index of a socket
    readyState,     \* readyState[s] of every WebSocket created so far
    wire,           \* wire[s]: the messages socket s accepted for transmission
    msgQueue,       \* LiveClient.msgQueue
    subs,           \* history: one record per sendText/sendToolResponse/sendAudio call
    opened,         \* history: the sockets whose open handler has run
    attempts,       \* history: send() calls made on a socket that was not OPEN
    resolved,       \* history: readyState of socket s when its connect() call resolved
    uncaught,       \* history: kinds of exceptions that escaped a handler
    arrived,        \* history: inbound messages in arrival order
    pendingBlobs,   \* arrival numbers of Blob messages whose text() is pending
    delivered,      \* history: the calls of onUpdate, in order
    played,         \* history: the chunks playChunk scheduled, in order
    scheduledTime,  \* AudioStreamer.scheduledTime
    now,            \* AudioContext.currentTime
    rec,            \* one record per startRecording call
    source,         \* AudioStreamer.source: 0 is null, else a recording's index
    worklet,        \* AudioStreamer.worklet: 0 is null, else a recording's index
    port,           \* port[r]: frames posted by worklet r, not yet handled
    nFrames,        \* frames captured so far
    sinkLog,        \* history: the frames handed to the frame sink, in order
    stopped,        \* history: stopRecording ran after the last startRecording call
    codec,          \* a run of arrayBufferToBase64 and base64ToArrayBuffer on one buffer
    pcm             \* a run of float32ToInt16 and int16ToFloat32 on one sample

transportVars == <<ws, readyState, wire, msgQueue, subs, opened, attempts, resolved>>
inboundVars == <<arrived, pendingBlobs, delivered, played, scheduledTime, now>>
captureVars == <<rec, source, worklet, port, nFrames, sinkLog, stopped>>
helperVars == <<codec, pcm>>
vars == <<transportVars, uncaught, inboundVars, captureVars, helperVars>>

Sockets == 1..Len(readyState)
Recordings == 1..Len(rec)

\* ------------------------------------------------------- session messages
SetupMsg(s) == [kind |-> "setup", n |-> 0, ref |-> s]
ClientMsg(kind, n, ref) == [kind |-> kind, n |-> n, ref |-> ref]

\* The arguments drawn for sendToolResponse(functionCallId, name, response).
ToolIds == {"call-1", "call-2"}
ToolNames == {"f", "g"}
ToolResults == {"ok"}

\* The toolResponse object sendToolResponse builds.
ToolResponseSwapped(id, name, response) ==
    [functionResponses |->
        << [id |-> name, name |-> id, response |-> [result |-> response]] >>]

ToolResponse(id, name, response) ==
    [functionResponses |->
        << [id |-> id, name |-> name, response |-> [result |-> response]] >>]

\* The transport state of the specification, read off the client's fields.
TransportState ==
    IF ws = 0 THEN (IF Len(readyState) = 0 THEN "Idle" ELSE "Closed")
    ELSE CASE readyState[ws] = "CONNECTING" -> "Connecting"
           [] readyState[ws] = "OPEN" -> "Open"
           [] OTHER -> "Closed"

\* ------------------------------------------------------------- safeSend
\* The test of safeSend: this.ws && this.ws.readyState === WebSocket.OPEN,
\* evaluated against the ready states rs.
CanTransmitNoStateCheck(rs) == ws # 0
CanTransmit(rs) == ws # 0 /\ rs[ws] = "OPEN"

\* safeSend(data): transmit on this.ws or push on msgQueue.
SafeSend(m, rs, w, q) ==
    IF CanTransmit(rs)
    THEN [wire |-> [w EXCEPT ![ws] = Append(@, m)], queue |-> q]
    ELSE [wire |-> w, queue |-> Append(q, m)]

\* WebSocket.send as the flush loop calls it (this.ws?.send(msg)): "none" on a
\* null ws, "sent" on an OPEN socket, "throws" on a CONNECTING one
\* (InvalidStateError) and "discarded" on a CLOSING or CLOSED one.
RawSend(rs) ==
    IF ws = 0 THEN "none"
    ELSE CASE rs[ws] = "OPEN" -> "sent"
           [] rs[ws] = "CONNECTING" -> "throws"
           [] OTHER -> "discarded"

\* The flush loop of the open handler: while (msgQueue.length > 0) { shift; send }.
\* An exception leaves the loop with the shifted message gone.
RECURSIVE FlushLoop(_, _, _)
FlushLoop(rs, w, q) ==
    IF q = <<>> THEN [wire |-> w, queue |-> q, thrown |-> FALSE, bad |-> {}]
    ELSE CASE RawSend(rs) = "sent" ->
                FlushLoop(rs, [w EXCEPT ![ws] = Append(@, Head(q))], Tail(q))
           [] RawSend(rs) = "throws" ->
                [wire |-> w, queue |-> Tail(q), thrown |-> TRUE,
                 bad |-> {[sock |-> ws, state |-> rs[ws]]}]
           [] RawSend(rs) = "discarded" ->
                [FlushLoop(rs, w, Tail(q)) EXCEPT
                    !.bad = @ \cup {[sock |-> ws, state |-> rs[ws]]}]
           [] OTHER -> FlushLoop(rs, w, Tail(q))

FlushSkipped(rs, w, q) == [wire |-> w, queue |-> q, thrown |-> FALSE, bad |-> {}]
Flush(rs, w, q) == FlushLoop(rs, w, q)

InitSession ==
    /\ ws = 0
    /\ readyState = <<>>
    /\ wire = <<>>
    /\ msgQueue = <<>>
    /\ subs = <<>>
    /\ opened = {}
    /\ attempts = {}
    /\ resolved = <<>>
    /\ uncaught = {}
    /\ arrived = <<>>
    /\ pendingBlobs = {}
    /\ delivered = <<>>
    /\ played = <<>>
    /\ scheduledTime = 0
    /\ now = 0
    /\ rec = <<>>
    /\ source = 0
    /\ worklet = 0
    /\ port = <<>>
    /\ nFrames = 0
    /\ sinkLog = <<>>
    /\ stopped = FALSE

\* No helper is running.
IdleCodec == [pc |-> "idle", bytes |-> <<>>, b64 |-> <<>>, out |-> <<>>]
Zero == [num |-> 0, den |-> 1]
IdlePcm == [pc |-> "idle", x |-> [kind |-> "num", k |-> 0], int16 |-> 0, out |-> Zero]

Init ==
    /\ InitSession
    /\ codec = IdleCodec
    /\ pcm = IdlePcm

\* ------------------------------------------------------------- connect
\* connect(): this.ws = new WebSocket(url), then the four handlers are set. The
\* function is async and awaits nothing: its promise is resolved when the body
\* returns, with the socket just created.
Connect ==
    /\ Len(readyState) < MaxSockets
    /\ readyState' = Append(readyState, "CONNECTING")
    /\ wire' = Append(wire, <<>>)
    /\ ws' = Len(readyState) + 1
    /\ resolved' = Append(resolved, "CONNECTING")
    /\ UNCHANGED <<msgQueue, subs, opened, attempts, uncaught, inboundVars, captureVars>>
    /\ UNCHANGED helperVars

\* ---------------------------------------------------------- recording
\* The synchronous part of startRecording: it calls context.resume() and
\* suspends on the first await.
NewRecording(s) == [pc |-> "resume", connected |-> FALSE, stream |-> FALSE, by |-> s]

\* stopRecording(): source?.disconnect(); worklet?.disconnect(); both set to null.
\* Disconnecting the source cuts the input of the worklet it feeds.
StopRecordingRec ==
    IF source = 0 THEN rec ELSE [rec EXCEPT ![source].connected = FALSE]

\* ------------------------------------------------- the socket's handlers
\* The open event of socket s and its handler: sendSetup, the flush loop, then
\* startRecording, which an exception of the flush loop cuts off.
OnOpen(s) ==
    /\ s \in Sockets
    /\ readyState[s] = "CONNECTING"
    /\ LET rs == [readyState EXCEPT ![s] = "OPEN"]
           a == SafeSend(SetupMsg(s), rs, wire, msgQueue)
           f == Flush(rs, a.wire, a.queue)
       IN /\ readyState' = rs
          /\ wire' = f.wire
          /\ msgQueue' = f.queue
          /\ attempts' = attempts \cup f.bad
          /\ opened' = opened \cup {s}
          /\ IF f.thrown
             THEN /\ uncaught' = uncaught \cup {"InvalidStateError"}
                  /\ UNCHANGED <<rec, port, stopped>>
             ELSE /\ rec' = Append(rec, NewRecording(s))
                  /\ port' = Append(port, <<>>)
                  /\ stopped' = FALSE
                  /\ UNCHANGED uncaught
    /\ UNCHANGED <<ws, subs, resolved, inboundVars, source, worklet, nFrames, sinkLog>>
    /\ UNCHANGED helperVars

\* ---------------------------------------------------- the send methods
Submit(kind, ref) ==
    LET n == Len(subs) + 1
        a == SafeSend(ClientMsg(kind, n, ref), readyState, wire, msgQueue)
    IN /\ wire' = a.wire
       /\ msgQueue' = a.queue
       /\ subs' = Append(subs, [kind |-> kind, ref |-> ref, st |-> TransportState,
                                sock |-> ws])

AppSends == Cardinality({n \in 1..Len(subs) : subs[n].kind # "audio"})

SendText ==
    /\ AppSends < MaxSends
    /\ Submit("text", 0)
    /\ UNCHANGED <<ws, readyState, opened, attempts, resolved, uncaught, inboundVars,
                   captureVars>>
    /\ UNCHANGED helperVars

SendToolResponse(id, name, response) ==
    /\ AppSends < MaxSends
    /\ Submit("tool", ToolResponse(id, name, response))
    /\ UNCHANGED <<ws, readyState, opened, attempts, resolved, uncaught, inboundVars,
                   captureVars>>
    /\ UNCHANGED helperVars

\* ----------------------------------------------------------- disconnect
\* WebSocket.close(): a CONNECTING or OPEN socket becomes CLOSING.
\* A close() that would finish at once, with no close event to follow.
CloseSocketAtOnce(rs, s) ==
    IF s # 0 /\ rs[s] \in {"CONNECTING", "OPEN"} THEN [rs EXCEPT ![s] = "CLOSED"] ELSE rs

CloseSocket(rs, s) ==
    IF s # 0 /\ rs[s] \in {"CONNECTING", "OPEN"} THEN [rs EXCEPT ![s] = "CLOSING"] ELSE rs

Disconnect ==
    /\ readyState' = CloseSocket(readyState, ws)
    /\ rec' = StopRecordingRec
    /\ source' = 0
    /\ worklet' = 0
    /\ stopped' = TRUE
    /\ ws' = 0
    /\ msgQueue' = <<>>
    /\ UNCHANGED <<wire, subs, opened, attempts, resolved, uncaught, inboundVars, port, nFrames,
                   sinkLog>>
    /\ UNCHANGED helperVars

\* ------------------------------------------------------------ onclose
\* A close reason is a string, modelled as the sequence of its characters.
Quota == <<"q", "u", "o", "t", "a">>

\* The close events drawn: <<code, reason>>. The reasons are the empty string,
\* "quota", "no quota!", "Quota", "quot" and "ququota".
CloseCodes == {1000, 1006, 1011}
Reasons ==
    {<<>>, Quota, <<"n", "o", " ">> \o Quota \o <<"!">>, <<"Q", "u", "o", "t", "a">>,
     <<"q", "u", "o", "t">>, <<"q", "u">> \o Quota}
CloseCauses == CloseCodes \X Reasons

\* String.prototype.includes: needle occurs in hay at some position.
Includes(hay, needle) ==
    \E i \in 0..(Len(hay) - Len(needle)) : SubSeq(hay, i + 1, i + Len(needle)) = needle

\* The errorMsg the close handler computes, as a sequence: a fixed text, followed
\* by the characters of the reason for "Server error: " + reason.
ErrorMsgAny(code, reason) ==
    IF Includes(reason, Quota) THEN <<"Quota exceeded. Please check billing.">>
    ELSE IF code = 1011 THEN <<"Server error: ">> \o reason
    ELSE <<"Connection closed">>

ErrorMsg(code, reason) ==
    IF code = 1011
    THEN (IF Includes(reason, Quota) THEN <<"Quota exceeded. Please check billing.">>
          ELSE <<"Server error: ">> \o reason)
    ELSE <<"Connection closed">>

\* The close event of a socket that never opened carries code 1006 and no reason:
\* a close frame of the server can only reach a socket that has opened.
FailedConnect == <<1006, <<>>>>

\* The close event of socket s (remote close, failed connection, or the end of a
\* closing handshake) and its handler. The error event that precedes the close
\* event of a failed connection only logs.
OnCloseTwice(s, code, reason) ==
    /\ s \in Sockets
    /\ readyState[s] # "CLOSED"
    /\ s \in opened \/ <<code, reason>> = FailedConnect
    /\ readyState' = [readyState EXCEPT ![s] = "CLOSED"]
    /\ delivered' = delivered \o
          << [type |-> "closed", n |-> s, info |-> ErrorMsg(code, reason)],
             [type |-> "closed", n |-> s, info |-> ErrorMsg(code, reason)] >>
    /\ UNCHANGED <<ws, wire, msgQueue, subs, opened, attempts, resolved, uncaught, arrived,
                   pendingBlobs, played, scheduledTime, now, captureVars>>
    /\ UNCHANGED helperVars

OnCloseReconnect(s, code, reason) ==
    /\ s \in Sockets
    /\ readyState[s] # "CLOSED"
    /\ s \in opened \/ <<code, reason>> = FailedConnect
    /\ readyState' = IF Len(readyState) < MaxSockets
                     THEN Append([readyState EXCEPT ![s] = "CLOSED"], "CONNECTING")
                     ELSE [readyState EXCEPT ![s] = "CLOSED"]
    /\ wire' = IF Len(readyState) < MaxSockets THEN Append(wire, <<>>) ELSE wire
    /\ ws' = IF Len(readyState) < MaxSockets THEN Len(readyState) + 1 ELSE ws
    /\ delivered' = Append(delivered,
                           [type |-> "closed", n |-> s, info |-> ErrorMsg(code, reason)])
    /\ UNCHANGED <<msgQueue, subs, opened, attempts, resolved, uncaught, arrived,
                   pendingBlobs, played, scheduledTime, now, captureVars>>
    /\ UNCHANGED helperVars

OnClose(s, code, reason) ==
    /\ s \in Sockets
    /\ readyState[s] # "CLOSED"
    /\ s \in opened \/ <<code, reason>> = FailedConnect
    /\ readyState' = [readyState EXCEPT ![s] = "CLOSED"]
    /\ delivered' = Append(delivered,
                           [type |-> "closed", n |-> s, info |-> ErrorMsg(code, reason)])
    /\ UNCHANGED <<ws, wire, msgQueue, subs, opened, attempts, resolved, uncaught, arrived,
                   pendingBlobs, played, scheduledTime, now, captureVars>>
    /\ UNCHANGED helperVars

\* ------------------------------------------------------------ playChunk
\* playChunk on a payload of `bytes` bytes at clock `cur` with cursor `cursor`.
\* new Int16Array(buffer) throws on an odd byte length, createBuffer on a length
\* of 0; both happen before the cursor is read. Time is counted in sample periods,
\* so buffer.duration is the number of samples.
PlayChunkNoClamp(bytes, cur, cursor) ==
    IF bytes % 2 # 0 THEN [ok |-> FALSE, error |-> "RangeError"]
    ELSE IF bytes \div 2 = 0 THEN [ok |-> FALSE, error |-> "NotSupportedError"]
    ELSE [ok |-> TRUE, start |-> cursor, dur |-> bytes \div 2,
          cursor |-> cursor + bytes \div 2]

PlayChunkNoAdvance(bytes, cur, cursor) ==
    IF bytes % 2 # 0 THEN [ok |-> FALSE, error |-> "RangeError"]
    ELSE IF bytes \div 2 = 0 THEN [ok |-> FALSE, error |-> "NotSupportedError"]
    ELSE LET start == IF cursor < cur THEN cur ELSE cursor
         IN [ok |-> TRUE, start |-> start, dur |-> bytes \div 2, cursor |-> start]

PlayChunk(bytes, cur, cursor) ==
    IF bytes % 2 # 0 THEN [ok |-> FALSE, error |-> "RangeError"]
    ELSE IF bytes \div 2 = 0 THEN [ok |-> FALSE, error |-> "NotSupportedError"]
    ELSE LET start == IF cursor < cur THEN cur ELSE cursor
         IN [ok |-> TRUE, start |-> start, dur |-> bytes \div 2,
             cursor |-> start + bytes \div 2]

\* ------------------------------------------------------------ onmessage
\* The inbound messages drawn: <<shape, decoded payload length in bytes>>. Audio
\* parts carry an empty payload, an odd one, one sample or two samples; a tool
\* call stands for every message without inlineData; a malformed message is one
\* JSON.parse rejects.
InboundKinds ==
    {<<"audio", 0>>, <<"audio", 1>>, <<"audio", 2>>, <<"audio", 4>>,
     <<"toolCall", 0>>, <<"malformed", 0>>}

\* The message shapes the handler tells apart by the presence of inlineData: an
\* audio part, a tool call, a turn-complete notice, and a JSON object of none of
\* the known shapes.
DemuxKinds ==
    {<<"audio", 1>>, <<"audio", 2>>, <<"toolCall", 0>>, <<"turnComplete", 0>>,
     <<"unknown", 0>>, <<"malformed", 0>>}

InboundMsg(shape, bytes) == [shape |-> shape, bytes |-> bytes]

\* The message handler from JSON.parse on: a parse error or an exception of
\* playChunk ends the handler before onUpdate.
HandleDataUnparsed(n, m) ==
    /\ delivered' = Append(delivered, [type |-> "msg", n |-> n, info |-> m.shape])
    /\ UNCHANGED <<uncaught, played, scheduledTime>>

HandleDataPlayAll(n, m) ==
    LET p == PlayChunk(2, now, scheduledTime)
    IN IF m.shape = "malformed"
       THEN /\ uncaught' = uncaught \cup {"SyntaxError"}
            /\ UNCHANGED <<delivered, played, scheduledTime>>
       ELSE /\ played' = Append(played,
                   [n |-> n, at |-> now, before |-> scheduledTime,
                    start |-> p.start, dur |-> p.dur, after |-> p.cursor])
            /\ scheduledTime' = p.cursor
            /\ delivered' = Append(delivered, [type |-> "msg", n |-> n, info |-> m.shape])
            /\ UNCHANGED uncaught

HandleData(n, m) ==
    IF m.shape = "malformed"
    THEN /\ uncaught' = uncaught \cup {"SyntaxError"}
         /\ UNCHANGED <<delivered, played, scheduledTime>>
    ELSE IF m.shape = "audio"
    THEN LET p == PlayChunk(m.bytes, now, scheduledTime)
         IN IF p.ok
            THEN /\ played' = Append(played,
                        [n |-> n, at |-> now, before |-> scheduledTime,
                         start |-> p.start, dur |-> p.dur, after |-> p.cursor])
                 /\ scheduledTime' = p.cursor
                 /\ delivered' = Append(delivered,
                        [type |-> "msg", n |-> n, info |-> m.shape])
                 /\ UNCHANGED uncaught
            ELSE /\ uncaught' = uncaught \cup {p.error}
                 /\ UNCHANGED <<delivered, played, scheduledTime>>
    ELSE /\ delivered' = Append(delivered, [type |-> "msg", n |-> n, info |-> m.shape])
         /\ UNCHANGED <<uncaught, played, scheduledTime>>

\* A message event on socket s. A text frame is parsed and handled at once; a
\* Blob frame suspends the handler on event.data.text().
OnMessage(s, framing, shape, bytes) ==
    /\ s \in Sockets
    /\ readyState[s] = "OPEN"
    /\ Len(arrived) < MaxInbound
    /\ LET n == Len(arrived) + 1
           m == InboundMsg(shape, bytes)
       IN /\ arrived' = Append(arrived, m)
          /\ IF framing = "blob"
             THEN /\ pendingBlobs' = pendingBlobs \cup {n}
                  /\ UNCHANGED <<uncaught, delivered, played, scheduledTime>>
             ELSE /\ HandleData(n, m)
                  /\ UNCHANGED pendingBlobs
    /\ UNCHANGED <<transportVars, now, captureVars>>
    /\ UNCHANGED helperVars

\* event.data.text() of Blob message n resolves and its handler resumes.
BlobDecoded(n) ==
    /\ n \in pendingBlobs
    /\ pendingBlobs' = pendingBlobs \ {n}
    /\ HandleData(n, arrived[n])
    /\ UNCHANGED <<transportVars, arrived, now, captureVars>>
    /\ UNCHANGED helperVars

\* The audio clock advances.
Tick ==
    /\ now < MaxTime
    /\ now' = now + 1
    /\ UNCHANGED <<transportVars, uncaught, arrived, pendingBlobs, delivered, played,
                   scheduledTime, captureVars>>
    /\ UNCHANGED helperVars

\* ------------------------------------------------- startRecording, resumed
\* await context.resume() resolves; addModule is called.
RecResumed(r) ==
    /\ r \in Recordings
    /\ rec[r].pc = "resume"
    /\ rec' = [rec EXCEPT ![r].pc = "addModule"]
    /\ UNCHANGED <<transportVars, uncaught, inboundVars, source, worklet, port, nFrames,
                   sinkLog, stopped>>
    /\ UNCHANGED helperVars

\* await audioWorklet.addModule(...) resolves; getUserMedia is called.
RecModuleAdded(r) ==
    /\ r \in Recordings
    /\ rec[r].pc = "addModule"
    /\ rec' = [rec EXCEPT ![r].pc = "getUserMedia"]
    /\ UNCHANGED <<transportVars, uncaught, inboundVars, source, worklet, port, nFrames,
                   sinkLog, stopped>>
    /\ UNCHANGED helperVars

\* await getUserMedia(...) resolves: source and worklet are created, the port
\* handler is set and the graph is connected.
RecStreamGranted(r) ==
    /\ r \in Recordings
    /\ rec[r].pc = "getUserMedia"
    /\ rec' = [rec EXCEPT ![r] = [@ EXCEPT !.pc = "attached", !.connected = TRUE,
                                           !.stream = TRUE]]
    /\ source' = r
    /\ worklet' = r
    /\ UNCHANGED <<transportVars, uncaught, inboundVars, port, nFrames, sinkLog, stopped>>
    /\ UNCHANGED helperVars

\* getUserMedia rejects (permission denied, no device): startRecording's promise
\* rejects and nobody handles it.
RecStreamDenied(r) ==
    /\ r \in Recordings
    /\ rec[r].pc = "getUserMedia"
    /\ rec' = [rec EXCEPT ![r].pc = "failed"]
    /\ uncaught' = uncaught \cup {"NotAllowedError"}
    /\ UNCHANGED <<transportVars, inboundVars, source, worklet, port, nFrames, sinkLog,
                   stopped>>
    /\ UNCHANGED helperVars

\* The audio thread runs RecorderProcessor.process on a connected worklet and
\* posts the input channel to the port.
CaptureFrame(r) ==
    /\ r \in Recordings
    /\ rec[r].connected
    /\ nFrames < MaxFrames
    /\ nFrames' = nFrames + 1
    /\ port' = [port EXCEPT ![r] = Append(@, nFrames + 1)]
    /\ UNCHANGED <<transportVars, uncaught, inboundVars, rec, source, worklet, sinkLog,
                   stopped>>
    /\ UNCHANGED helperVars

\* worklet.port.onmessage of recording r: convert, encode, onData(b64), which is
\* sendAudio.
PortMessage(r) ==
    /\ r \in Recordings
    /\ port[r] # <<>>
    /\ port' = [port EXCEPT ![r] = Tail(@)]
    /\ sinkLog' = Append(sinkLog, [frame |-> Head(port[r]), rec |-> r, stopped |-> stopped])
    /\ Submit("audio", Head(port[r]))
    /\ UNCHANGED <<ws, readyState, opened, attempts, resolved, uncaught, inboundVars, rec, source,
                   worklet, nFrames, stopped>>
    /\ UNCHANGED helperVars

\* stopRecording() called on the client's AudioStreamer.
StopRecording ==
    /\ rec' = StopRecordingRec
    /\ source' = 0
    /\ worklet' = 0
    /\ stopped' = TRUE
    /\ UNCHANGED <<transportVars, uncaught, inboundVars, port, nFrames, sinkLog>>
    /\ UNCHANGED helperVars

\* ---------------------------------------------------- the base64 helpers
\* The buffers drawn: every sequence of at most MaxLen bytes over ByteVals, and
\* every byte value 0x00..0xFF at each position of a three-byte group.
ByteVals == {0, 1, 63, 128, 255}
ByteBuffers ==
    UNION {[1..l -> ByteVals] : l \in 0..MaxLen}
        \cup {<<b>> : b \in 0..255} \cup {<<1, b>> : b \in 0..255}
        \cup {<<255, 128, b>> : b \in 0..255}

\* The base64 alphabet of btoa and atob.
Base64Chars ==
    <<"A", "B", "C", "D", "E", "F", "G", "H", "I", "J", "K", "L", "M", "N", "O", "P",
      "Q", "R", "S", "T", "U", "V", "W", "X", "Y", "Z", "a", "b", "c", "d", "e", "f",
      "g", "h", "i", "j", "k", "l", "m", "n", "o", "p", "q", "r", "s", "t", "u", "v",
      "w", "x", "y", "z", "0", "1", "2", "3", "4", "5", "6", "7", "8", "9", "+", "/">>
Digit(v) == Base64Chars[v + 1]
Sextet(c) == CHOOSE v \in 0..63 : Base64Chars[v + 1] = c

\* btoa on a binary string, given as the sequence of its code units: three
\* bytes become four digits, a last group of one or two bytes is padded with "=".
RECURSIVE Btoa(_)
Btoa(bin) ==
    IF Len(bin) = 0 THEN <<>>
    ELSE IF Len(bin) = 1
    THEN <<Digit(bin[1] \div 4), Digit((bin[1] % 4) * 16), "=", "=">>
    ELSE IF Len(bin) = 2
    THEN <<Digit(bin[1] \div 4), Digit((bin[1] % 4) * 16 + bin[2] \div 16),
           Digit((bin[2] % 16) * 4), "=">>
    ELSE <<Digit(bin[1] \div 4), Digit((bin[1] % 4) * 16 + bin[2] \div 16),
           Digit((bin[2] % 16) * 4 + bin[3] \div 64), Digit(bin[3] % 64)>>
         \o Btoa(SubSeq(bin, 4, Len(bin)))

\* atob on padded base64 text: four digits become three bytes, fewer before "=".
RECURSIVE Atob(_)
Atob(txt) ==
    IF Len(txt) = 0 THEN <<>>
    ELSE LET a == Sextet(txt[1])
             b == Sextet(txt[2])
             rest == Atob(SubSeq(txt, 5, Len(txt)))
         IN IF txt[3] = "=" THEN <<a * 4 + b \div 16>>
            ELSE IF txt[4] = "="
            THEN <<a * 4 + b \div 16, (b % 16) * 16 + Sextet(txt[3]) \div 4>>
            ELSE <<a * 4 + b \div 16, (b % 16) * 16 + Sextet(txt[3]) \div 4,
                   (Sextet(txt[3]) % 4) * 64 + Sextet(txt[4])>> \o rest

\* arrayBufferToBase64: String.fromCharCode of every byte, then btoa.
ArrayBufferToBase64Whole(buffer) ==
    Btoa(SubSeq([i \in 1..Len(buffer) |-> buffer[i]], 1, 3 * (Len(buffer) \div 3)))

ArrayBufferToBase64(buffer) == Btoa([i \in 1..Len(buffer) |-> buffer[i]])

\* base64ToArrayBuffer: atob, then charCodeAt of every character stored in a
\* Uint8Array.
Base64ToArrayBuffer(base64) ==
    LET binaryString == Atob(base64)
    IN [i \in 1..Len(binaryString) |-> binaryString[i] % 256]

\* One buffer is encoded, then the text is decoded.
InitBase64 ==
    /\ InitSession
    /\ pcm = IdlePcm
    /\ \E b \in ByteBuffers : codec = [pc |-> "bytes", bytes |-> b, b64 |-> <<>>, out |-> <<>>]

EncodeBuffer ==
    /\ codec.pc = "bytes"
    /\ codec' = [codec EXCEPT !.pc = "text", !.b64 = ArrayBufferToBase64(codec.bytes)]
    /\ UNCHANGED <<transportVars, uncaught, inboundVars, captureVars, pcm>>

DecodeText ==
    /\ codec.pc = "text"
    /\ codec' = [codec EXCEPT !.pc = "done", !.out = Base64ToArrayBuffer(codec.b64)]
    /\ UNCHANGED <<transportVars, uncaught, inboundVars, captureVars, pcm>>

Base64Next == EncodeBuffer \/ DecodeText
SpecBase64 == InitBase64 /\ [][Base64Next]_vars

\* ------------------------------------------------------- the PCM helpers
\* A sample is NaN or the number k / Resolution; the samples drawn range from
\* -1.5 to 1.5.
Samples ==
    {[kind |-> "nan", k |-> 0]}
        \cup {[kind |-> "num", k |-> k] :
                 k \in -(Resolution + Resolution \div 2)..(Resolution + Resolution \div 2)}

\* Math.max(-1, Math.min(1, x)); both give NaN on NaN.
ClampNone(x) == x
Clamp(x) ==
    IF x.kind = "nan" THEN x
    ELSE [x EXCEPT !.k = IF x.k > Resolution THEN Resolution
                         ELSE IF x.k < -Resolution THEN -Resolution ELSE x.k]

\* Integer part of n / d, toward zero.
TruncDiv(n, d) == IF n >= 0 THEN n \div d ELSE -((-n) \div d)

\* The store into an Int16Array element of the number n / d (or NaN): NaN is
\* stored as 0, a number is truncated toward zero and reduced modulo 2^16.
ToInt16(kind, n, d) ==
    IF kind = "nan" THEN 0
    ELSE ((TruncDiv(n, d) + 32768) % 65536) - 32768

\* float32ToInt16 on one element: s < 0 ? s * 0x8000 : s * 0x7FFF.
Float32ToInt16(x) ==
    LET s == Clamp(x)
    IN IF s.kind = "num" /\ s.k < 0
       THEN ToInt16(s.kind, s.k * 32768, Resolution)
       ELSE ToInt16(s.kind, s.k * 32767, Resolution)

\* int16ToFloat32 on one element: int16[i] / 32768.0, which a Float32Array holds
\* exactly: the result is the fraction num / den.
Int16ToFloat32(v) == [num |-> v, den |-> 32768]

\* One sample is quantized, then restored.
InitPcm ==
    /\ InitSession
    /\ codec = IdleCodec
    /\ \E x \in Samples : pcm = [pc |-> "sample", x |-> x, int16 |-> 0, out |-> Zero]

QuantizeSample ==
    /\ pcm.pc = "sample"
    /\ pcm' = [pcm EXCEPT !.pc = "int16", !.int16 = Float32ToInt16(pcm.x)]
    /\ UNCHANGED <<transportVars, uncaught, inboundVars, captureVars, codec>>

RestoreSample ==
    /\ pcm.pc = "int16"
    /\ pcm' = [pcm EXCEPT !.pc = "done", !.out = Int16ToFloat32(pcm.int16)]
    /\ UNCHANGED <<transportVars, uncaught, inboundVars, captureVars, codec>>

PcmNext == QuantizeSample \/ RestoreSample
SpecPcm == InitPcm /\ [][PcmNext]_vars

\* ------------------------------------------------------- specifications
\* The session's lifecycle, with close events drawn from `causes`.
SessionNext(causes) ==
    \/ Connect
    \/ Disconnect
    \/ \E s \in Sockets : OnOpen(s)
    \/ \E s \in Sockets, c \in causes : OnClose(s, c[1], c[2])

SendNext ==
    \/ SendText
    \/ \E id \in ToolIds, name \in ToolNames, r \in ToolResults :
          SendToolResponse(id, name, r)

InboundNext(kinds) ==
    \/ \E s \in Sockets, f \in {"text", "blob"}, k \in kinds :
          OnMessage(s, f, k[1], k[2])
    \/ \E n \in pendingBlobs : BlobDecoded(n)
    \/ Tick

CaptureNext ==
    \/ \E r \in Recordings : RecResumed(r)
    \/ \E r \in Recordings : RecModuleAdded(r)
    \/ \E r \in Recordings : RecStreamGranted(r)
    \/ \E r \in Recordings : RecStreamDenied(r)
    \/ \E r \in Recordings : CaptureFrame(r)
    \/ \E r \in Recordings : PortMessage(r)
    \/ StopRecording

Next ==
    \/ SessionNext(CloseCauses)
    \/ SendNext
    \/ InboundNext(InboundKinds \cup DemuxKinds)
    \/ CaptureNext

\* The whole session layer. Its state space is the product of the three
\* components', so the properties are checked under the component
\* specifications below.
Spec == Init /\ [][Next]_vars

\* The components own disjoint state (socket and queue; clock and cursor; device
\* and port), so each is also explored on its own, under the session's lifecycle.
\* The close cause plays no part in sending, playback or capture: one cause is
\* drawn there, and the causes are explored over the lifecycle alone.
NormalClose == {<<1000, <<>>>>, FailedConnect}

TransportNext == SessionNext(NormalClose) \/ SendNext
SpecTransport == Init /\ [][TransportNext]_vars

SpecSession == Init /\ [][SessionNext(CloseCauses)]_vars

\* The receive path reads nothing of the client but the socket a message arrives
\* on: it is explored over the lifecycle of one connection.
SingleSession ==
    \/ (Len(readyState) = 0 /\ Connect)
    \/ Disconnect
    \/ \E s \in Sockets : OnOpen(s)
    \/ \E s \in Sockets, c \in NormalClose : OnClose(s, c[1], c[2])

PlaybackNext == SingleSession \/ InboundNext(InboundKinds)
SpecInbound == Init /\ [][PlaybackNext]_vars

\* The same receive path over the message shapes in place of the payload sizes.
DemuxNext == SingleSession \/ InboundNext(DemuxKinds)
SpecDemux == Init /\ [][DemuxNext]_vars

RecordingNext == SessionNext(NormalClose) \/ CaptureNext
SpecCapture == Init /\ [][RecordingNext]_vars

\* ------------------------------------------------------------ properties
InWire(s, n) == \E i \in 1..Len(wire[s]) : wire[s][i].kind # "setup" /\ wire[s][i].n = n
InQueue(n) == \E i \in 1..Len(msgQueue) : msgQueue[i].kind # "setup" /\ msgQueue[i].n = n
SetupCount(s) == Cardinality({i \in 1..Len(wire[s]) : wire[s][i].kind = "setup"})
SubmittedOn(s, st) == {n \in 1..Len(subs) : subs[n].sock = s /\ subs[n].st = st}
Duration(n) == arrived[n].bytes \div 2
Max(a, b) == IF a < b THEN b ELSE a

\* C1: on every connection that reached Open exactly one Setup was transmitted, and
\* whatever a connection transmitted first is its Setup.
C1_SetupFirstExactlyOnce ==
    /\ \A s \in opened : SetupCount(s) = 1
    /\ \A s \in Sockets : wire[s] # <<>> => wire[s][1].kind = "setup"

\* C2: the messages submitted while a connection was Connecting are, once it has
\* opened, transmitted on it in submission order, after its Setup and before every
\* message submitted while it was Open.
C2_QueuedFlushedInOrder ==
    \A s \in opened :
        LET W == wire[s]
            conn == SubmittedOn(s, "Connecting")
            post == SubmittedOn(s, "Open")
            IsIn(i, set) == W[i].kind # "setup" /\ W[i].n \in set
        IN /\ \A n \in conn : InWire(s, n)
           /\ \A i, j \in 1..Len(W) :
                 /\ (i < j /\ IsIn(i, conn) /\ IsIn(j, conn)) => W[i].n < W[j].n
                 /\ (W[i].kind = "setup" /\ IsIn(j, conn)) => i < j
                 /\ (IsIn(i, conn) /\ IsIn(j, post)) => i < j

\* C3: a send in state Open appends the message to the socket's transmissions and
\* leaves the queue alone; a send in state Idle or Connecting appends it to the
\* tail of the queue and transmits nothing.
C3_SendEffect ==
    [][Len(subs') = Len(subs) + 1 =>
        LET n == Len(subs')
            m == ClientMsg(subs'[n].kind, n, subs'[n].ref)
        IN /\ TransportState = "Open" =>
                /\ wire' = [wire EXCEPT ![ws] = Append(@, m)]
                /\ msgQueue' = msgQueue
           /\ TransportState \in {"Idle", "Connecting"} =>
                /\ msgQueue' = Append(msgQueue, m)
                /\ wire' = wire]_vars

C3_Witness ==
    \E a, b, c \in 1..Len(subs) :
        /\ subs[a].st = "Idle"
        /\ subs[b].st = "Connecting"
        /\ subs[c].st = "Open"
        /\ InWire(subs[c].sock, c)

\* C4: a message submitted while the transport is Closed is dropped: it is neither
\* transmitted nor queued.
C4_ClosedSendDropped ==
    \A n \in 1..Len(subs) :
        subs[n].st = "Closed" => (~InQueue(n) /\ \A s \in Sockets : ~InWire(s, n))

\* C5: whenever the transport is Open (its open handler has run), the queue is empty.
C5_QueueEmptyWhenOpen == TransportState = "Open" => msgQueue = <<>>

C5_Witness ==
    /\ TransportState = "Open"
    /\ msgQueue = <<>>
    /\ \E n \in 1..Len(subs) : subs[n].st = "Connecting" /\ InWire(ws, n)

\* C6: onUpdate receives the inbound messages in their order of arrival, none twice.
C6_DeliveredOnceInOrder ==
    \A i, j \in 1..Len(delivered) :
        (i < j /\ delivered[i].type = "msg" /\ delivered[j].type = "msg")
            => delivered[i].n < delivered[j].n

\* C7: playChunk is called on the inbound audio parts in their order of arrival.
C7_PlayedInArrivalOrder ==
    \A i, j \in 1..Len(played) : i < j => played[i].n < played[j].n

\* C8: every chunk starts at max(clock, cursor before the call), the cursor after
\* the call is that start plus the chunk's duration, and the cursor never decreases.
C8_CursorRule ==
    /\ \A i \in 1..Len(played) :
          /\ played[i].start = Max(played[i].at, played[i].before)
          /\ played[i].after = played[i].start + Duration(played[i].n)
          /\ played[i].after >= played[i].before
          /\ played[i].before = (IF i = 1 THEN 0 ELSE played[i - 1].after)
    /\ scheduledTime = (IF played = <<>> THEN 0 ELSE played[Len(played)].after)

C8_Witness ==
    /\ \E i \in 1..Len(played) : played[i].at > played[i].before
    /\ \E i \in 1..Len(played) : played[i].at < played[i].before

\* C9: start times never decrease and chunks never overlap; a chunk enqueued while
\* the previous one has not ended starts exactly at its end, a chunk enqueued
\* after it ended (or first) starts at the clock.
C9_NoOverlapNoGap ==
    /\ played # <<>> => played[1].start = played[1].at
    /\ \A i \in 2..Len(played) :
          LET prevEnd == played[i - 1].start + Duration(played[i - 1].n)
          IN /\ played[i].start >= played[i - 1].start
             /\ played[i].start >= prevEnd
             /\ prevEnd >= played[i].at => played[i].start = prevEnd
             /\ prevEnd < played[i].at => played[i].start = played[i].at

C9_Witness ==
    /\ Len(played) = 3
    /\ \E i \in 2..3 : played[i - 1].after > played[i].at
    /\ \E i \in 2..3 : played[i - 1].after < played[i].at

\* C10: no frame reaches the frame sink once stopRecording has returned (until
\* startRecording is called again).
C10_NoFrameAfterStop == \A i \in 1..Len(sinkLog) : ~sinkLog[i].stopped

\* C11: once disconnect() has completed and until connect() is called again, no
\* message is transmitted, none is appended to the queue and no chunk is scheduled
\* for playback, whatever callbacks were in flight.
Disconnected == ws = 0 /\ Len(readyState) > 0
C11_NoEffectAfterDisconnect ==
    [][(Disconnected /\ ws' = 0) =>
        /\ wire' = wire
        /\ Len(msgQueue') <= Len(msgQueue)
        /\ played' = played]_vars

\* C12: disconnect() raises nothing in any state, and when it returns the queue is
\* empty and no capture device handle is active: the source and worklet fields are
\* null, no worklet is fed and no microphone stream is live.
C12_DisconnectReleasesAll ==
    [][Disconnect =>
        /\ uncaught' = uncaught
        /\ msgQueue' = <<>>
        /\ source' = 0
        /\ worklet' = 0
        /\ \A r \in Recordings : ~rec'[r].connected /\ ~rec'[r].stream]_vars

\* C13: every connection that was closed remotely or failed is CLOSED and exactly
\* one closed event was delivered for it, whatever the close code; a connection
\* that has not closed has none. When the closed connection is the client's, the
\* transport state is Closed.
ClosedEvents(s) ==
    Cardinality({i \in 1..Len(delivered) :
                    delivered[i].type = "closed" /\ delivered[i].n = s})
C13_OneClosedEvent ==
    /\ \A s \in Sockets :
          ClosedEvents(s) = (IF readyState[s] = "CLOSED" THEN 1 ELSE 0)
    /\ \A i \in 1..Len(delivered) :
          (delivered[i].type = "closed" /\ delivered[i].n = ws)
              => TransportState = "Closed"

C13_Witness ==
    /\ ws = 2
    /\ 1 \in opened
    /\ 2 \notin opened
    /\ readyState = <<"CLOSED", "CLOSED">>
    /\ Len(delivered) = 2
    /\ delivered[1].info # delivered[2].info

\* C14: the closed event of a close with code 1011 whose reason contains the word
\* "quota" carries the quota/billing cause; with code 1011 and any other reason it
\* carries the server-error cause (followed by the reason); with any other code it
\* carries the connection-closed cause, whatever the reason.
QuotaReasons == {Quota, <<"n", "o", " ", "q", "u", "o", "t", "a", "!">>,
                 <<"q", "u", "q", "u", "o", "t", "a">>}
QuotaCause == <<"Quota exceeded. Please check billing.">>
C14_CauseClassified ==
    [][\A s \in Sockets, c \in CloseCauses :
          OnClose(s, c[1], c[2]) =>
              LET e == delivered'[Len(delivered')].info
              IN /\ (c[1] = 1011 /\ c[2] \in QuotaReasons) => e = QuotaCause
                 /\ (c[1] = 1011 /\ c[2] \notin QuotaReasons)
                       => e = <<"Server error: ">> \o c[2]
                 /\ c[1] # 1011 => e = <<"Connection closed">>]_vars

C14_Witness ==
    \E i, j \in 1..Len(delivered) :
        /\ delivered[i].type = "closed"
        /\ delivered[j].type = "closed"
        /\ delivered[i].info = QuotaCause
        /\ delivered[j].info = <<"Server error: ", "q", "u", "o", "t">>

\* C15: no step but connect() creates a connection, a connection that is CLOSED
\* stays CLOSED, and startRecording is called only by the open handler of a
\* connection passing from CONNECTING to OPEN: nothing reconnects or restarts
\* capture by itself once a connection has closed.
C15_NoAutoReconnect ==
    [][/\ Len(readyState') > Len(readyState) => Connect
       /\ \A s \in Sockets : readyState[s] = "CLOSED" => readyState'[s] = "CLOSED"
       /\ Len(rec') > Len(rec) =>
             /\ Len(rec') = Len(rec) + 1
             /\ LET s == rec'[Len(rec')].by
                IN readyState[s] = "CONNECTING" /\ readyState'[s] = "OPEN"]_vars

C15_Witness ==
    /\ ws = 1
    /\ 1 \in opened
    /\ readyState = <<"CLOSED">>
    /\ Len(rec) = 1
    /\ rec[1].connected
    /\ nFrames > 0

\* C16: the step that handles a malformed message calls neither onUpdate nor
\* playChunk and leaves the socket, the ready states, the queue, the
\* transmissions and the playback cursor as they were; and whatever malformed
\* messages arrived, every handled well-formed message was passed to onUpdate
\* exactly once (an audio part with a playable payload was scheduled exactly
\* once before that), while no malformed one ever was.
HandledMalformed ==
    \/ /\ Len(arrived') = Len(arrived) + 1
       /\ pendingBlobs' = pendingBlobs
       /\ arrived'[Len(arrived')].shape = "malformed"
    \/ \E n \in pendingBlobs \ pendingBlobs' : arrived[n].shape = "malformed"
DeliveredCount(n) ==
    Cardinality({i \in 1..Len(delivered) : delivered[i].type = "msg" /\ delivered[i].n = n})
PlayedCount(n) == Cardinality({i \in 1..Len(played) : played[i].n = n})
Playable(m) == m.shape = "audio" /\ m.bytes % 2 = 0 /\ m.bytes > 0
C16_MalformedSkipped ==
    [][/\ HandledMalformed =>
             UNCHANGED <<ws, readyState, wire, msgQueue, delivered, played, scheduledTime>>
       /\ \A n \in 1..Len(arrived') :
             /\ arrived'[n].shape = "malformed" =>
                   (DeliveredCount(n)' = 0 /\ PlayedCount(n)' = 0)
             /\ (n \notin pendingBlobs' /\ arrived'[n].shape = "toolCall") =>
                   (DeliveredCount(n)' = 1 /\ PlayedCount(n)' = 0)
             /\ (n \notin pendingBlobs' /\ Playable(arrived'[n])) =>
                   (DeliveredCount(n)' = 1 /\ PlayedCount(n)' = 1)]_vars

C16_Witness ==
    /\ Len(arrived) = 3
    /\ pendingBlobs = {}
    /\ arrived[1].shape = "malformed"
    /\ arrived[2].shape = "malformed"
    /\ Playable(arrived[3])
    /\ DeliveredCount(3) = 1
    /\ PlayedCount(3) = 1
    /\ delivered[1].n = 3
    /\ TransportState = "Open"

\* C17: every startRecording that failed to acquire the microphone was surfaced to
\* the application as one event through onUpdate, and its rejection was handled
\* by the caller.
FailedRecordings == {r \in Recordings : rec[r].pc = "failed"}
CaptureEvents == {i \in 1..Len(delivered) : delivered[i].type \notin {"msg", "closed"}}
C17_CaptureFailureSurfaced ==
    /\ Cardinality(CaptureEvents) = Cardinality(FailedRecordings)
    /\ FailedRecordings # {} => "NotAllowedError" \notin uncaught

\* C18: the transport state of the client moves only along Idle -> Connecting,
\* Connecting -> Open, Connecting -> Closed and Open -> Closed; in particular it
\* never leaves Closed.
Transitions ==
    {<<"Idle", "Connecting">>, <<"Connecting", "Open">>, <<"Connecting", "Closed">>,
     <<"Open", "Closed">>}
C18_ClosedIsTerminal ==
    [][TransportState' # TransportState =>
          <<TransportState, TransportState'>> \in Transitions]_vars

\* C19: the promise of a connect() call is not resolved while its socket is still
\* CONNECTING.
C19_ConnectAwaitsOpen == \A s \in 1..Len(resolved) : resolved[s] # "CONNECTING"

\* C20: a call sendToolResponse(id, name, result) produces exactly one message,
\* carrying that id, that name and the result under response.result: it is
\* appended to the transmissions of the client's socket when the transport is
\* Open, with the queue left alone, and to the tail of the queue otherwise, with
\* nothing transmitted.
C20_ToolResponseProduced ==
    [][\A id \in ToolIds, name \in ToolNames, r \in ToolResults :
          SendToolResponse(id, name, r) =>
              LET fr == [id |-> id, name |-> name, response |-> [result |-> r]]
                  m == [kind |-> "tool", n |-> Len(subs) + 1,
                        ref |-> [functionResponses |-> <<fr>>]]
              IN IF TransportState = "Open"
                 THEN /\ wire' = [wire EXCEPT ![ws] = Append(@, m)]
                      /\ msgQueue' = msgQueue
                 ELSE /\ msgQueue' = Append(msgQueue, m)
                      /\ wire' = wire]_vars

C20_Witness ==
    \E b, c, d \in 1..Len(subs) :
        /\ subs[b].kind = "tool" /\ subs[b].st = "Connecting"
        /\ subs[c].kind = "tool" /\ subs[c].st = "Open" /\ InWire(subs[c].sock, c)
        /\ subs[d].kind = "tool" /\ subs[d].st = "Closed" /\ InQueue(d)

\* C21: the step that handles a message with an audio part calls playChunk on it
\* once (a playable payload is scheduled once, an unplayable one raises), the
\* step that handles a tool call, a turn-complete notice or a message of unknown
\* shape passes it to onUpdate once and schedules nothing; no message is ever
\* scheduled or passed on twice, and none but audio parts are ever scheduled.
HandledNow(n) ==
    \/ Len(arrived') = n /\ Len(arrived) = n - 1 /\ pendingBlobs' = pendingBlobs
    \/ n \in pendingBlobs \ pendingBlobs'
NonAudioShapes == {"toolCall", "turnComplete", "unknown"}
C21_RoutedByShape ==
    [][\A n \in 1..Len(arrived') :
          LET m == arrived'[n]
          IN /\ PlayedCount(n)' <= 1
             /\ DeliveredCount(n)' <= 1
             /\ m.shape # "audio" => PlayedCount(n)' = 0
             /\ (HandledNow(n) /\ m.shape = "audio") =>
                   IF Playable(m)
                   THEN /\ Len(played') = Len(played) + 1
                        /\ played'[Len(played')].n = n
                   ELSE /\ played' = played
                        /\ uncaught' \cap {"RangeError", "NotSupportedError"} # {}
             /\ (HandledNow(n) /\ m.shape \in NonAudioShapes) =>
                   /\ delivered' =
                         Append(delivered, [type |-> "msg", n |-> n, info |-> m.shape])
                   /\ played' = played
                   /\ scheduledTime' = scheduledTime]_vars

C21_Witness ==
    /\ Len(arrived) = 3
    /\ pendingBlobs = {}
    /\ {arrived[n].shape : n \in 1..3} \in
          {{"audio", "turnComplete", "unknown"}, {"audio", "toolCall", "unknown"}}
    /\ Len(played) = 1
    /\ Len(delivered) = 3

\* C22: the frames reach the sink in capture order, one sendAudio call is made per
\* frame handed over, in the same order, and the audio messages transmitted on a
\* socket or waiting in the queue are in capture order, none twice.
AudioSubs == {n \in 1..Len(subs) : subs[n].kind = "audio"}
InCaptureOrder(q) ==
    \A i, j \in 1..Len(q) :
        (i < j /\ q[i].kind = "audio" /\ q[j].kind = "audio") => q[i].ref < q[j].ref
C22_FrameOrderKept ==
    /\ \A i, j \in 1..Len(sinkLog) : i < j => sinkLog[i].frame < sinkLog[j].frame
    /\ Cardinality(AudioSubs) = Len(sinkLog)
    /\ \A a, b \in AudioSubs : a < b => subs[a].ref < subs[b].ref
    /\ InCaptureOrder(msgQueue)
    /\ \A s \in Sockets : InCaptureOrder(wire[s])

\* C23: decoding the base64 text of a buffer gives the buffer back: same length,
\* same bytes.
C23_Base64RoundTrip == codec.pc = "done" => codec.out = codec.bytes

C23_Witness ==
    /\ codec.pc = "done"
    /\ codec.bytes = <<255, 0, 128, 255>>
    /\ codec.out = codec.bytes
    /\ Len(codec.b64) = 8
    /\ codec.b64[8] = "="

\* C24: for a sample x = k / Resolution in [-1, 1], the restored value num / den
\* differs from x by at most 1 / 32768.
Abs(v) == IF v < 0 THEN -v ELSE v
C24_QuantizationError ==
    (pcm.pc = "done" /\ pcm.x.kind = "num" /\ Abs(pcm.x.k) <= Resolution)
        => Abs(pcm.out.num * Resolution - pcm.x.k * pcm.out.den)
              <= (Resolution * pcm.out.den) \div 32768

\* C25: float32ToInt16 gives a result for every sample, NaN included: every
\* sample above 1 gives 32767, every sample below -1 gives -32768, a sample in
\* [-1, 1] gives the integer part of x * 32767 (x >= 0) or x * 32768 (x < 0), and
\* every result lies in -32768..32767 with the sign of the sample.
C25_ClampedNoWrap ==
    pcm.pc \in {"int16", "done"} =>
        LET k == pcm.x.k
            v == pcm.int16
        IN /\ v \in -32768..32767
           /\ pcm.x.kind = "nan" => v = 0
           /\ pcm.x.kind = "num" =>
                 /\ k > Resolution => v = 32767
                 /\ k < -Resolution => v = -32768
                 /\ (0 <= k /\ k <= Resolution) => v = (k * 32767) \div Resolution
                 /\ (-Resolution <= k /\ k < 0) => v = -((-k * 32768) \div Resolution)

C25_Witness ==
    /\ pcm.pc = "done"
    /\ pcm.x.kind = "num"
    /\ pcm.x.k = -(Resolution + 1)
    /\ pcm.int16 = -32768

\* C26: the open handler of a connection leaves the queue empty, and every
\* message that was queued while a connection was Connecting has, once that
\* connection has opened, been transmitted exactly once.
Transmissions(n) ==
    {<<s, i>> \in Sockets \X (1..MaxSends + MaxFrames + 1) :
        i <= Len(wire[s]) /\ wire[s][i].kind # "setup" /\ wire[s][i].n = n}
C26_QueuedSentOnce ==
    [][/\ (\E s \in Sockets : OnOpen(s)) => msgQueue' = <<>>
       /\ \A n \in 1..Len(subs') :
             (subs'[n].st = "Connecting" /\ subs'[n].sock \in opened')
                 => Cardinality(Transmissions(n)') = 1]_vars

\* C27: once the client's connection has closed and its closed event has been
\* delivered, and until connect() is called again, no frame is handed to the sink
\* and the queue does not grow.
ClosedRemotely ==
    IF ws = 0 THEN FALSE ELSE readyState[ws] = "CLOSED" /\ ClosedEvents(ws) = 1
C27_CloseEndsSession ==
    [][(ClosedRemotely /\ ws' = ws) =>
          /\ sinkLog' = sinkLog
          /\ Len(msgQueue') <= Len(msgQueue)]_vars

\* C28: a message submitted while the transport was Closed is never transmitted,
\* on no connection.
C28_SessionsIsolated ==
    \A n \in 1..Len(subs) : subs[n].st = "Closed" => \A s \in Sockets : ~InWire(s, n)

\* C29: WebSocket.send is never called on a socket that is not OPEN.
C29_SendOnlyWhenOpen == \A a \in attempts : a.state = "OPEN"

\* C30: whatever connects overlap, every socket that has opened was sent its own
\* Setup first and no other Setup, no Setup built by one socket's open handler
\* was transmitted on another socket, and none was left in the queue.
C30_OwnSetupOnly ==
    /\ \A s \in opened :
          /\ wire[s] # <<>>
          /\ wire[s][1] = SetupMsg(s)
          /\ SetupCount(s) = 1
    /\ \A s \in Sockets : \A i \in 1..Len(wire[s]) :
          wire[s][i].kind = "setup" => wire[s][i].ref = s
    /\ \A i \in 1..Len(msgQueue) : msgQueue[i].kind # "setup"

\* C31: at most one recording has its worklet and media source attached, and it
\* is the one the source and worklet fields refer to.
Attached == {r \in Recordings : rec[r].connected}
C31_OneCapturePipeline ==
    /\ Cardinality(Attached) <= 1
    /\ \A r \in Attached : source = r /\ worklet = r

\* C32: an audio message whose payload cannot be played (odd or zero number of
\* bytes) is scheduled nowhere, leaves the cursor where the chunks played so far
\* put it, and is still passed to onUpdate once it has been handled.
Unplayable(n) == arrived[n].shape = "audio" /\ ~Playable(arrived[n])
C32_ForwardedWhenPlaybackFails ==
    /\ scheduledTime = (IF played = <<>> THEN 0 ELSE played[Len(played)].after)
    /\ \A n \in 1..Len(arrived) :
          (n \notin pendingBlobs /\ Unplayable(n))
              => (PlayedCount(n) = 0 /\ DeliveredCount(n) = 1)

\* C33 (as stated): the close event that ends a closing handshake begun by
\* disconnect() delivers one closed event carrying the connection-closed cause.
LocallyClosed(s) == readyState[s] = "CLOSING" /\ readyState'[s] = "CLOSED"
C33_LocalCloseGeneric ==
    [][\A s \in Sockets :
          LocallyClosed(s) =>
              delivered' = Append(delivered, [type |-> "closed", n |-> s,
                                              info |-> <<"Connection closed">>])]_vars

\* C33: disconnect() delivers nothing itself; it leaves a CONNECTING or OPEN
\* connection CLOSING and changes no other connection, so that with no live
\* connection nothing is left to close. The close event of a CLOSING connection
\* then delivers exactly one closed event for it, and no connection ever has more
\* than one. The event carries the connection-closed cause when the connection
\* never opened or the close code is not 1011; when the server's own close frame
\* with code 1011 came first, it carries that close's cause.
C33_LocalCloseOneEvent ==
    [][/\ Disconnect =>
             /\ delivered' = delivered
             /\ \A s \in Sockets :
                   readyState'[s] =
                       (IF s = ws /\ readyState[s] \in {"CONNECTING", "OPEN"}
                        THEN "CLOSING" ELSE readyState[s])
       /\ \A s \in Sockets :
             /\ ClosedEvents(s)' <= 1
             /\ LocallyClosed(s) =>
                   /\ Len(delivered') = Len(delivered) + 1
                   /\ ClosedEvents(s)' = 1
                   /\ s \notin opened
                         => delivered'[Len(delivered')].info = <<"Connection closed">>
                   /\ \A c \in CloseCauses :
                         (OnClose(s, c[1], c[2]) /\ c[1] # 1011)
                             => delivered'[Len(delivered')].info = <<"Connection closed">>
                   /\ delivered'[Len(delivered')].info # <<"Connection closed">>
                         => \E c \in CloseCauses : c[1] = 1011 /\ OnClose(s, c[1], c[2])]_vars

\* Two connections were closed by disconnect(): the one that had opened got its
\* closed event with the server's cause, the one that had not is still CLOSING.
C33_Witness ==
    /\ ws = 0
    /\ readyState = <<"CLOSED", "CLOSING">>
    /\ opened = {1}
    /\ ClosedEvents(1) = 1
    /\ ClosedEvents(2) = 0
    /\ \E i \in 1..Len(delivered) :
          /\ delivered[i].type = "closed"
          /\ delivered[i].info = QuotaCause

====
